---- MODULE Spec2Model ----
(***************************************************************************)
(* A model of foiatool: the SQLite-backed store (src/foiatool/data.py),    *)
(* the work queue, the orchestrator loop (src/foiatool/foiatool.py), the   *)
(* bulk-download protocol (src/foiatool/apis/nextrequest.py) and the file  *)
(* writes (src/foiatool/apis/common.py).                                   *)
(***************************************************************************)
EXTENDS Integers, FiniteSets, Sequences, TLC

(***************************************************************************)
(* Bounds of the model.                                                    *)
(***************************************************************************)
\* config.download_timeout_seconds, in poll intervals (time.sleep(2) of the poll loop).
DownloadTimeout == 2
\* datetime.now() is a logical clock; every time-stamping call advances it.
MaxTime == 3
\* The most WorkQueue rows the queue holds at once.
MaxQueue == 2
\* The chunks r.iter_content yields for one file.
NChunks == 2
\* The items a remote source holds at most.
MaxItems == 3
\* The page numbers the model tells apart; the pages after it are followed by
\* their parity alone.
MaxPage == 5
\* The largest rowid the model hands out (rowids grow as rows are deleted and added).
MaxRowId == 3

(***************************************************************************)
(* Program constants.                                                      *)
(***************************************************************************)
\* data.py RequestStatus
PENDING == 1
CLOSED == 2
DOWNLOADED == 3
ERROR == 4
\* data.py TaskType
DOWNLOAD == 0
BULK_DOWNLOAD == 1
UPDATE_METADATA == 2

RequestStatus == {PENDING, CLOSED, DOWNLOADED, ERROR}
TaskType == {DOWNLOAD, BULK_DOWNLOAD, UPDATE_METADATA}

\* The range of status_from_str: dict(closed=CLOSED, open=PENDING).
status_from_str(s) == IF s = "closed" THEN CLOSED ELSE PENDING

(***************************************************************************)
(* Input domains.                                                          *)
(***************************************************************************)
\* SQL NULL in a CharField, and in the request foreign key.
NULL == "NULL"
NoRequest == 0

Sources == {"acme.gov", "city.gov"}
RequestIds == {"R-100", "R-101"}
DocIds == {"D-1"}
DocNames == {"a.pdf", "b.pdf"}
Paths == {"/dl/x.zip", "/dl/y.zip"}
Contents == {"bytes1", "bytes2"}
NoFile == "absent"
\* The path a request's file is kept at, and the path the driver downloads to.
Canonical == "/dl/x.zip"
Staging == "/downloads/R-100/x.zip"
\* OverWriteGuard: self._backup = path + ".bak"
Backup(path) ==
    CASE path = "" -> ".bak"
      [] path = "/dl/x.zip" -> "/dl/x.zip.bak"
      [] path = "/dl/y.zip" -> "/dl/y.zip.bak"
      [] OTHER -> "/downloads/R-100/x.zip.bak"
\* Where a file is after somebody moved it.
MovedTo(path) == IF path = "/dl/x.zip" THEN "/moved/x.zip" ELSE "/moved/y.zip"
AllPaths ==
    Paths \cup {Staging, ""} \cup {Backup(p) : p \in Paths \cup {Staging, ""}}
          \cup {MovedTo(p) : p \in Paths}
\* A file that open(outpath, "wb") has truncated, and one that holds some chunks.
Empty == "empty"
Partial == "partial"

VARIABLES
    requests,    \* FOIARequest rows
    downloads,   \* DocumentDownload rows
    queue,       \* WorkQueue rows
    scrape,      \* ScrapeMetadata rows
    now,         \* datetime.now()
    fs,          \* the file system: path -> content or NoFile
    snapshot,    \* the WorkQueue rows the running process read and still holds
    unfinished,  \* rows a process had read, and not completed, when it was interrupted
    lastOp,      \* the last Store call and the branch it took
    \* visit_pending_requests and the worker of download_docs_for_request
    ignore_ids,  \* config.ignore_ids
    pc,          \* where the orchestrator is
    pending,     \* the FOIARequest objects the loop iterates over
    idx,         \* the position of the loop in pending
    wpc,         \* where the worker thread of the bulk download is
    elapsed,     \* the polls the worker has slept through for this item
    failure,     \* the exception the worker raised
    handled,     \* <<source, request id, outcome>> of each item an outcome was written for
    failed,      \* <<source, request id, exception>> of each item whose download raised
    bad_count,   \* repair_data's count of broken records
    \* one transfer to a path
    flow,        \* which code path writes the file
    fpc,         \* where that code path is
    prior,       \* what the canonical path held before
    chunks,      \* the chunks written so far
    \* one paginated search of the driver
    page,        \* the page number of the last search request
    consumed,    \* the items yielded so far
    total_count, \* the total the first response reported
    resp,        \* the number of items in the last response
    spc,         \* where the search generator is
    remote,      \* the remote source: its items, its page size, the total it reports
    \* processes that call the Store at the same time
    callers,     \* where each caller of add_*_task is, and the task it adds
    \* the locals of _perform_bulk_download
    job_id,      \* what _initiate_bulk_download returned
    polled,      \* the last poll: the job id it asked for and what it returned
    data         \* the answer to the request for the archive: has it a url, a filename

storeVars == <<requests, downloads, queue, scrape, now>>
visitVars == <<ignore_ids, pc, pending, idx, wpc, elapsed, failure, handled, failed, bad_count>>
fileVars == <<flow, fpc, prior, chunks>>
searchVars == <<page, consumed, total_count, resp, spc, remote>>
raceVars == <<callers>>
jobVars == <<job_id, polled, data>>
vars == <<requests, downloads, queue, scrape, now, fs, snapshot, unfinished, lastOp,
          visitVars, fileVars, searchVars, raceVars, jobVars>>

Max(S) == CHOOSE x \in S : \A y \in S : y <= x
\* An INTEGER PRIMARY KEY without AUTOINCREMENT: one more than the largest rowid.
NextId(rows) == IF rows = {} THEN 1 ELSE Max({r.id : r \in rows}) + 1

\* A Store call: its name, whether its lookup found a row, and its inputs.
Op(name, hit, key) == [op |-> name, hit |-> hit, key |-> key]

(***************************************************************************)
(* WorkQueue: data.py 154-212.                                             *)
(***************************************************************************)
TaskKey(t) == <<t.target_source, t.task_type, t.task_target_id, t.document_id>>

\* A mutant of get_task: document_id compared with SQL "=", which no NULL satisfies.
get_task_NullNeverEqual(task_type, target_source, target_id, document_id) ==
    {t \in queue : /\ t.target_source = target_source
                   /\ t.task_type = task_type
                   /\ t.task_target_id = target_id
                   /\ document_id # NULL
                   /\ t.document_id = document_id}

\* peewee turns "field == None" into IS NULL, so a NULL document_id matches NULL rows.
get_task(task_type, target_source, target_id, document_id) ==
    {t \in queue : /\ t.target_source = target_source
                   /\ t.task_type = task_type
                   /\ t.task_target_id = target_id
                   /\ t.document_id = document_id}

WorkQueueRow(target_source, task_type, target_id, document_name, document_id) ==
    [id |-> NextId(queue), target_source |-> target_source, task_type |-> task_type,
     task_target_id |-> target_id, document_name |-> document_name,
     document_id |-> document_id]

\* The common shape of the three add_*_task methods: return if get_task finds a row,
\* else WorkQueue.create.
Enqueue(name, task_type, target_source, target_id, document_name, document_id) ==
    LET found == get_task(task_type, target_source, target_id, document_id) # {} IN
    /\ found \/ (Cardinality(queue) < MaxQueue /\ NextId(queue) <= MaxRowId)
    /\ queue' = IF found THEN queue
                ELSE queue \cup {WorkQueueRow(target_source, task_type, target_id,
                                              document_name, document_id)}
    /\ lastOp' = Op(name, found, <<target_source, task_type, target_id, document_id>>)
    /\ UNCHANGED <<requests, downloads, scrape, now, fs, snapshot, unfinished>>
    /\ UNCHANGED <<visitVars, fileVars, searchVars, raceVars, jobVars>>

add_bulk_download_task(target_source, request_id) ==
    Enqueue("add_bulk_download_task", BULK_DOWNLOAD, target_source, request_id, NULL, NULL)

add_download_task(target_source, request_id, doc_id, doc_name) ==
    Enqueue("add_download_task", DOWNLOAD, target_source, request_id, doc_name, doc_id)

add_update_task(target_source, request_id) ==
    Enqueue("add_update_task", UPDATE_METADATA, target_source, request_id, NULL, NULL)

\* A mutant of get_tasks_for_source: the filter is inverted.
get_tasks_for_source_OtherSources(target_source) ==
    {t \in queue : t.target_source # target_source}

\* get_tasks(WorkQueue.target_source == target_source): a SELECT.
get_tasks_for_source(target_source) ==
    {t \in queue : t.target_source = target_source}

\* A process reads the queue of one source; the rows it holds are its snapshot.
GetTasksForSource(target_source) ==
    /\ snapshot' = get_tasks_for_source(target_source)
    /\ lastOp' = Op("get_tasks_for_source", snapshot' # {}, <<target_source>>)
    /\ UNCHANGED <<requests, downloads, queue, scrape, now, fs, unfinished>>
    /\ UNCHANGED <<visitVars, fileVars, searchVars, raceVars, jobVars>>

\* WorkQueue.delete().where(WorkQueue.id == task.id)
mark_task_completed(task) == {t \in queue : t.id # task.id}

MarkTaskCompleted(task) ==
    /\ queue' = mark_task_completed(task)
    /\ snapshot' = snapshot \ {task}
    /\ unfinished' = {t \in unfinished : t.id # task.id}
    /\ lastOp' = Op("mark_task_completed", queue' # queue, <<task.id>>)
    /\ UNCHANGED <<requests, downloads, scrape, now, fs>>
    /\ UNCHANGED <<visitVars, fileVars, searchVars, raceVars, jobVars>>

\* WorkQueue.delete(): the clear-pending command, a process of its own.
clear_tasks == {}

ClearTasks ==
    /\ snapshot = {}
    /\ queue # {}
    /\ queue' = clear_tasks
    /\ unfinished' = {}
    /\ lastOp' = Op("clear_tasks", TRUE, <<>>)
    /\ UNCHANGED <<requests, downloads, scrape, now, fs, snapshot>>
    /\ UNCHANGED <<visitVars, fileVars, searchVars, raceVars, jobVars>>

\* The process is killed (or ends) holding the rows it read and did not complete.
Interrupt ==
    /\ snapshot # {}
    /\ snapshot' = {}
    /\ unfinished' = unfinished \cup snapshot
    /\ lastOp' = Op("interrupt", TRUE, <<>>)
    /\ UNCHANGED <<requests, downloads, queue, scrape, now, fs>>
    /\ UNCHANGED <<visitVars, fileVars, searchVars, raceVars, jobVars>>

(***************************************************************************)
(* FOIARequest: data.py 46-58, 111-152, 269-288.                           *)
(***************************************************************************)
\* What the remote source reports of a request: its state, the date it was submitted,
\* its department and its document count.
Observations ==
    {<<"closed", 100, "Police", 1>>, <<"closed", 100, "Fire", 2>>,
     <<"open", 101, "Police", 2>>, <<"open", 101, "Fire", 1>>}

\* FOIARequest.get_or_none(scrape_source == .. & request_id == ..): the rows that match.
get_request(scrape_source, request_id) ==
    {r \in requests : r.scrape_source = scrape_source /\ r.request_id = request_id}

\* kwargs laid over a row.
Merge(row, kwargs) ==
    [f \in DOMAIN row |-> IF f \in DOMAIN kwargs THEN kwargs[f] ELSE row[f]]

\* FOIARequest.update(**kwargs).where(FOIARequest.id == req.id)
update_request(req, kwargs) ==
    {IF r.id = req.id THEN Merge(r, kwargs) ELSE r : r \in requests}

\* A mutant of add_request: the lookup is skipped and a row is always created.
add_request_AlwaysCreate(scrape_source, request_id, request_status, request_date, department, document_count) ==
    requests \cup
        {[id |-> NextId(requests), date_submitted |-> request_date,
          date_checked |-> now + 1, department |-> department,
          scrape_source |-> scrape_source, request_id |-> request_id,
          request_status |-> request_status, document_count |-> document_count]}

\* A mutant of add_request: the update leaves the department as it was.
add_request_KeepDepartment(scrape_source, request_id, request_status, request_date, department, document_count) ==
    LET found == get_request(scrape_source, request_id) IN
    IF found # {}
    THEN update_request(CHOOSE r \in found : TRUE,
                        [document_count |-> document_count,
                         date_checked |-> now + 1, request_status |-> request_status])
    ELSE requests \cup
        {[id |-> NextId(requests), date_submitted |-> request_date,
          date_checked |-> now + 1, department |-> department,
          scrape_source |-> scrape_source, request_id |-> request_id,
          request_status |-> request_status, document_count |-> document_count]}

\* A mutant of add_request: the update also writes the date the request was submitted.
add_request_UpdateSubmitted(scrape_source, request_id, request_status, request_date, department, document_count) ==
    LET found == get_request(scrape_source, request_id) IN
    IF found # {}
    THEN update_request(CHOOSE r \in found : TRUE,
                        [department |-> department, document_count |-> document_count,
                         date_submitted |-> request_date,
                         date_checked |-> now + 1, request_status |-> request_status])
    ELSE requests \cup
        {[id |-> NextId(requests), date_submitted |-> request_date,
          date_checked |-> now + 1, department |-> department,
          scrape_source |-> scrape_source, request_id |-> request_id,
          request_status |-> request_status, document_count |-> document_count]}

\* add_request: the FOIARequest table after the call (datetime.now() is now + 1).
add_request(scrape_source, request_id, request_status, request_date, department, document_count) ==
    LET found == get_request(scrape_source, request_id) IN
    IF found # {}
    THEN update_request(CHOOSE r \in found : TRUE,
                        [department |-> department, document_count |-> document_count,
                         date_checked |-> now + 1, request_status |-> request_status])
    ELSE requests \cup
        {[id |-> NextId(requests), date_submitted |-> request_date,
          date_checked |-> now + 1, department |-> department,
          scrape_source |-> scrape_source, request_id |-> request_id,
          request_status |-> request_status, document_count |-> document_count]}

AddRequest(scrape_source, request_id, request_status, request_date, department, document_count) ==
    /\ now < MaxTime
    /\ requests' = add_request(scrape_source, request_id, request_status, request_date,
                               department, document_count)
    /\ now' = now + 1
    /\ lastOp' = Op("add_request", get_request(scrape_source, request_id) # {},
                    <<scrape_source, request_id, request_status, request_date,
                      department, document_count>>)
    /\ UNCHANGED <<downloads, queue, scrape, fs, snapshot, unfinished>>
    /\ UNCHANGED <<visitVars, fileVars, searchVars, raceVars, jobVars>>

\* mark_request_closed / mark_request_error / mark_request_pending
mark_request(request, status) ==
    update_request(request, [date_checked |-> now + 1, request_status |-> status])

\* A mutant of mark_request_closed: the request is stored as DOWNLOADED.
mark_request_closed_AsDownloaded(request) == mark_request(request, DOWNLOADED)

mark_request_closed(request) == mark_request(request, CLOSED)
mark_request_error(request) == mark_request(request, ERROR)
mark_request_pending(request) == mark_request(request, PENDING)

MarkRequest(name, request, rows) ==
    /\ now < MaxTime
    /\ requests' = rows
    /\ now' = now + 1
    /\ lastOp' = Op(name, TRUE, <<request.id>>)
    /\ UNCHANGED <<downloads, queue, scrape, fs, snapshot, unfinished>>
    /\ UNCHANGED <<visitVars, fileVars, searchVars, raceVars, jobVars>>

MarkRequestClosed(request) ==
    MarkRequest("mark_request_closed", request, mark_request_closed(request))
MarkRequestError(request) ==
    MarkRequest("mark_request_error", request, mark_request_error(request))
MarkRequestPending(request) ==
    MarkRequest("mark_request_pending", request, mark_request_pending(request))

(***************************************************************************)
(* DocumentDownload: data.py 61-73, 97-99, 214-267.                        *)
(***************************************************************************)
\* hashlib.md5 of the bytes: a digest that depends on the content alone.
Md5(content) == <<"md5", content>>
get_doc_md5(file_path) == Md5(fs[file_path])

\* DocumentDownload.create(...): the new row.
_add_download(request, path, is_bulk, document_count, document_id) ==
    [id |-> NextId(downloads), request |-> request.id, document_id |-> document_id,
     date_downloaded |-> now + 1, is_bulk |-> is_bulk, download_path |-> path,
     checksum |-> get_doc_md5(path), document_count |-> document_count]

\* A mutant of add_download: the request's document count is recorded.
add_download_RequestCount(request, path, document_id) ==
    _add_download(request, path, FALSE, request.document_count, document_id)

add_download(request, path, document_id) ==
    _add_download(request, path, FALSE, 1, document_id)

\* A mutant of add_bulk_download: one document is recorded.
add_bulk_download_CountOne(request, path) ==
    _add_download(request, path, TRUE, 1, NULL)

add_bulk_download(request, path) ==
    _add_download(request, path, TRUE, request.document_count, NULL)

\* A mutant of RecordDownload: the new row replaces the earlier rows of the same
\* document of the same request.
RecordDownload_Overwrite(name, row) ==
    /\ now < MaxTime
    /\ fs[row.download_path] # NoFile
    /\ downloads' = {d \in downloads : ~(d.request = row.request /\
                                          d.document_id = row.document_id)} \cup {row}
    /\ now' = now + 1
    /\ lastOp' = Op(name, TRUE, <<row.request, row.download_path, row.document_id>>)
    /\ UNCHANGED <<requests, queue, scrape, fs, snapshot, unfinished>>
    /\ UNCHANGED <<visitVars, fileVars, searchVars, raceVars, jobVars>>

\* open(file_path, "rb") raises when no file is there: no row is created.
RecordDownload(name, row) ==
    /\ now < MaxTime
    /\ fs[row.download_path] # NoFile
    /\ downloads' = downloads \cup {row}
    /\ now' = now + 1
    /\ lastOp' = Op(name, TRUE, <<row.request, row.download_path, row.document_id>>)
    /\ UNCHANGED <<requests, queue, scrape, fs, snapshot, unfinished>>
    /\ UNCHANGED <<visitVars, fileVars, searchVars, raceVars, jobVars>>

AddDownload(request, path, document_id) ==
    RecordDownload("add_download", add_download(request, path, document_id))

AddBulkDownload(request, path) ==
    RecordDownload("add_bulk_download", add_bulk_download(request, path))

(***************************************************************************)
(* ScrapeMetadata and the statistics: data.py 87-94, 290-349.              *)
(***************************************************************************)
\* A mutant of update_scrape_date: a plain INSERT, without ON CONFLICT.
update_scrape_date_PlainInsert(source) ==
    scrape \cup {[id |-> NextId(scrape), scrape_source |-> source,
                  last_scrape_date |-> now + 1]}

\* INSERT ... ON CONFLICT (scrape_source) DO UPDATE SET last_scrape_date
update_scrape_date(source) ==
    IF \E m \in scrape : m.scrape_source = source
    THEN {IF m.scrape_source = source THEN [m EXCEPT !.last_scrape_date = now + 1] ELSE m
          : m \in scrape}
    ELSE scrape \cup {[id |-> NextId(scrape), scrape_source |-> source,
                       last_scrape_date |-> now + 1]}

UpdateScrapeDate(source) ==
    /\ now < MaxTime
    /\ scrape' = update_scrape_date(source)
    /\ now' = now + 1
    /\ lastOp' = Op("update_scrape_date", \E m \in scrape : m.scrape_source = source,
                    <<source>>)
    /\ UNCHANGED <<requests, downloads, queue, fs, snapshot, unfinished>>
    /\ UNCHANGED <<visitVars, fileVars, searchVars, raceVars, jobVars>>

get_requests == requests
get_open_requests == {r \in requests : r.request_status = PENDING}
\* A mutant of get_closed_requests: the rows in error are counted as closed too.
get_closed_requests_WithErrors == {r \in requests : r.request_status \in {CLOSED, ERROR}}
get_closed_requests == {r \in requests : r.request_status = CLOSED}
get_error_requests == {r \in requests : r.request_status = ERROR}
\* get_downloads(None): DocumentDownload rows, not FOIARequest rows.
get_downloaded_requests == downloads

RECURSIVE SumCounts(_)
SumCounts(rows) ==
    IF rows = {} THEN 0
    ELSE LET d == CHOOSE x \in rows : TRUE IN d.document_count + SumCounts(rows \ {d})

\* ScrapeMetadata.get() raises DoesNotExist on an empty table, and get_stats with it.
get_stats_raises == scrape = {}

get_stats ==
    [total_request_count |-> Cardinality(get_requests),
     pending_request_count |-> Cardinality(get_open_requests),
     downloaded_request_count |-> Cardinality(get_downloaded_requests),
     closed_request_count |-> Cardinality(get_closed_requests),
     error_request_count |-> Cardinality(get_error_requests),
     document_count |-> SumCounts(get_downloaded_requests)]

InitStore ==
    /\ requests = {}
    /\ downloads = {}
    /\ queue = {}
    /\ scrape = {}
    /\ now = 0

\* No orchestrator runs and no file is being written.
InitVisitIdle ==
    /\ ignore_ids = {}
    /\ pc = "idle"
    /\ pending = <<>>
    /\ idx = 0
    /\ wpc = "none"
    /\ elapsed = 0
    /\ failure = "none"
    /\ handled = {}
    /\ failed = {}
    /\ bad_count = 0

\* The processes that share the database file.
Callers == {"p1", "p2"}
NoCall == [pc |-> "idle", task |-> <<>>]

NoPoll == [job_id |-> NULL, working |-> NULL]
NoData == [url |-> NULL, filename |-> NULL]

\* No search is under way, no second process calls the Store, no worker runs.
InitSearchIdle ==
    /\ job_id = NULL
    /\ polled = NoPoll
    /\ data = NoData
    /\ callers = [c \in Callers |-> NoCall]
    /\ page = 0
    /\ consumed = 0
    /\ total_count = 0
    /\ resp = 0
    /\ spc = "idle"
    /\ remote = [items |-> 0, page_size |-> 1, total_count |-> 0]

InitFileIdle ==
    /\ flow = "none"
    /\ fpc = "idle"
    /\ prior = NoFile
    /\ chunks = 0
    /\ InitSearchIdle

Init ==
    /\ InitStore
    /\ fs = [p \in AllPaths |-> IF p \in Paths THEN "bytes1" ELSE NoFile]
    /\ snapshot = {}
    /\ unfinished = {}
    /\ lastOp = Op("init", FALSE, <<>>)
    /\ InitVisitIdle
    /\ InitFileIdle

QueueNext ==
    \/ \E s \in Sources, r \in RequestIds : add_bulk_download_task(s, r)
    \/ \E s \in Sources, r \in RequestIds, d \in DocIds \cup {NULL}, n \in DocNames :
          add_download_task(s, r, d, n)
    \/ \E s \in Sources, r \in RequestIds : add_update_task(s, r)
    \/ \E s \in Sources : GetTasksForSource(s)
    \/ \E t \in snapshot : MarkTaskCompleted(t)
    \/ ClearTasks
    \/ Interrupt

SpecQueue == Init /\ [][QueueNext]_vars

\* An orphan document: a download with no request.
NoneRequest == [id |-> NoRequest, document_count |-> 0]

StoreNext ==
    \/ \E s \in Sources, r \in RequestIds, o \in Observations :
          AddRequest(s, r, status_from_str(o[1]), o[2], o[3], o[4])
    \/ \E r \in requests : MarkRequestClosed(r)
    \/ \E r \in requests : MarkRequestError(r)
    \/ \E r \in requests : MarkRequestPending(r)
    \/ \E r \in requests \cup {NoneRequest}, p \in Paths, d \in DocIds :
          AddDownload(r, p, d)
    \/ \E r \in requests, p \in Paths : AddBulkDownload(r, p)
    \/ \E s \in Sources : UpdateScrapeDate(s)

SpecStore == Init /\ [][StoreNext]_vars

(***************************************************************************)
(* The bulk download: nextrequest.py 78-124, 169-172.                      *)
(* The worker thread runs _perform_bulk_download; what the remote answers  *)
(* is the input of each step.                                              *)
(***************************************************************************)
\* The polls the model follows a job that stays "working" for.
MaxElapsed == DownloadTimeout + 2

Current == pending[idx]

WorkerStep(next, exception) ==
    /\ wpc' = next
    /\ failure' = exception
    /\ UNCHANGED <<requests, downloads, queue, scrape, now, fs, snapshot, unfinished, lastOp>>
    /\ UNCHANGED <<ignore_ids, pc, pending, idx, handled, failed, bad_count, fileVars, searchVars, raceVars>>

\* The job ids the remote hands out.
JobIds == {"J1", "J2"}

\* A mutant of InitiateBulkDownload: a missing jobId is not tested for.
InitiateBulkDownload_NoTest(answer) ==
    /\ pc = "download"
    /\ wpc = "initiate"
    /\ elapsed' = elapsed
    /\ UNCHANGED <<polled, data>>
    /\ CASE answer = "job" -> (\E j \in JobIds : job_id' = j) /\ WorkerStep("poll", "none")
         [] answer = "no job id" -> UNCHANGED job_id /\ WorkerStep("poll", "none")
         [] OTHER -> UNCHANGED job_id /\ WorkerStep("raised", "HTTPError")

\* _initiate_bulk_download: PUT documents/bulk; raise_for_status; no jobId raises
\* DownloadException.
InitiateBulkDownload(answer) ==
    /\ pc = "download"
    /\ wpc = "initiate"
    /\ elapsed' = elapsed
    /\ UNCHANGED <<polled, data>>
    /\ CASE answer = "job" -> (\E j \in JobIds : job_id' = j) /\ WorkerStep("poll", "none")
         [] answer = "no job id" ->
                UNCHANGED job_id /\ WorkerStep("raised", "DownloadException")
         [] OTHER -> UNCHANGED job_id /\ WorkerStep("raised", "HTTPError")

\* A mutant of poll_job_id: the poll asks for a fixed job.
poll_job_id_Fixed == "J1"

\* The job_id argument of self._poll_background_job at line 110.
poll_job_id == job_id

\* What the remote answers to GET background_job_logs: an HTTP error, or the list
\* of the jobs of the request, each with its id and its status.
JobStatuses == {"working", "failed", "complete"}
JobLogs ==
    {jobs \in SUBSET [id : JobIds, status : JobStatuses] :
        \A j1, j2 \in jobs : j1.id = j2.id => j1 = j2}
PollAnswers == {[ok |-> FALSE, jobs |-> {}]} \cup {[ok |-> TRUE, jobs |-> j] : j \in JobLogs}

\* A mutant of _poll_background_job: any working job of the request counts.
_poll_background_job_AnyJob(jobs, id) ==
    \E job \in jobs : job.status = "working"

\* _poll_background_job: True when a job of the list has the id and is "working".
_poll_background_job(jobs, id) ==
    \E job \in jobs : job.id = id /\ job.status = "working"

\* One poll of the loop of _perform_bulk_download: raise_for_status, then while the
\* poll returns True, time.sleep(2) and poll again; on False the loop is left.
PollBackgroundJob(answer) ==
    /\ pc = "download"
    /\ wpc = "poll"
    /\ UNCHANGED <<job_id, data>>
    /\ IF ~answer.ok
       THEN /\ elapsed' = elapsed
            /\ polled' = [job_id |-> poll_job_id, working |-> NULL]
            /\ WorkerStep("raised", "HTTPError")
       ELSE IF _poll_background_job(answer.jobs, poll_job_id)
       THEN /\ elapsed < MaxElapsed
            /\ elapsed' = elapsed + 1
            /\ polled' = [job_id |-> poll_job_id, working |-> "True"]
            /\ WorkerStep("poll", "none")
       ELSE /\ elapsed' = elapsed
            /\ polled' = [job_id |-> poll_job_id, working |-> "False"]
            /\ WorkerStep("fetch", "none")

\* What the request for the archive can answer when it lacks a url or a filename.
IncompleteData ==
    {[url |-> FALSE, filename |-> TRUE], [url |-> TRUE, filename |-> FALSE],
     [url |-> FALSE, filename |-> FALSE]}

\* GET documents/download; raise_for_status; no url or no filename raises
\* DownloadException.
FetchArchive(answer) ==
    /\ pc = "download"
    /\ wpc = "fetch"
    /\ elapsed' = elapsed
    /\ UNCHANGED <<job_id, polled>>
    /\ CASE answer = "url and filename" ->
                /\ data' = [url |-> TRUE, filename |-> TRUE]
                /\ WorkerStep("transfer", "none")
         [] answer = "archive missing" ->
                /\ data' \in IncompleteData
                /\ WorkerStep("raised", "DownloadException")
         [] OTHER -> UNCHANGED data /\ WorkerStep("raised", "HTTPError")

\* common.download_file to outpath; the worker returns outpath.
TransferArchive(answer) ==
    /\ pc = "download"
    /\ wpc = "transfer"
    /\ elapsed' = elapsed
    /\ UNCHANGED jobVars
    /\ CASE answer = "complete" -> WorkerStep("finished", "none")
         [] OTHER -> WorkerStep("raised", "HTTPError")

\* The future of pool.submit is done once the worker returned or raised.
FutureDone == wpc \in {"finished", "raised"}

\* download_docs_for_request: "with ThreadPoolExecutor() as pool" leaves the block
\* through pool.shutdown(wait=True), so the call returns the future only when the
\* worker is through.
download_docs_for_request_returns == FutureDone

(***************************************************************************)
(* visit_pending_requests: foiatool.py 124-181.                            *)
(***************************************************************************)
RECURSIVE ById(_)
\* The rows of a SELECT, in rowid order.
ById(rows) ==
    IF rows = {} THEN <<>>
    ELSE LET r == CHOOSE x \in rows : \A y \in rows : x.id <= y.id
         IN <<r>> \o ById(rows \ {r})

\* normalize_file_name: the path a request's archive is moved to.
normalize_file_name(request) ==
    IF request.request_id = "R-100" THEN "/dl/x.zip" ELSE "/dl/y.zip"

\* pending = [r for r in dbsess.get_open_requests() if r.request_id not in ignore_ids]
StartVisit ==
    /\ pc \in {"idle", "repaired"}
    /\ pending' = ById({r \in get_open_requests : r.request_id \notin ignore_ids})
    /\ idx' = 1
    /\ pc' = "loop"
    /\ UNCHANGED <<requests, downloads, queue, scrape, now, fs, snapshot, unfinished, lastOp>>
    /\ UNCHANGED <<ignore_ids, wpc, elapsed, failure, handled, failed, bad_count, fileVars, searchVars, raceVars, jobVars>>

\* A mutant of VisitRequest: the test of request_state is left out.
VisitRequest_AnyState(request_state, doc_count, department, needs_download) ==
    /\ pc = "loop"
    /\ idx <= Len(pending)
    /\ UNCHANGED <<downloads, queue, scrape, fs, snapshot, unfinished>>
    /\ UNCHANGED <<ignore_ids, pending, failure, failed, handled, bad_count, fileVars, searchVars, raceVars, jobVars>>
    /\ IF doc_count = 0
       THEN /\ requests' = mark_request_closed(Current)
            /\ now' = now + 1
            /\ idx' = idx + 1
            /\ lastOp' = Op("visit", TRUE, <<Current.id, "no documents">>)
            /\ UNCHANGED <<pc, wpc, elapsed>>
       ELSE /\ requests' = update_request(Current, [document_count |-> doc_count,
                                                    department |-> department])
            /\ UNCHANGED now
            /\ IF ~needs_download
               THEN /\ idx' = idx + 1
                    /\ lastOp' = Op("visit", TRUE, <<Current.id, "no download needed">>)
                    /\ UNCHANGED <<pc, wpc, elapsed>>
               ELSE /\ pc' = "download"
                    /\ wpc' = "initiate"
                    /\ elapsed' = 0
                    /\ lastOp' = Op("visit", TRUE, <<Current.id, "download">>)
                    /\ UNCHANGED idx

\* One pass of the loop body up to the download: lines 138-170. request_state and
\* doc_count are what the remote reports, needs_download is the attribute of req.
VisitRequest(request_state, doc_count, department, needs_download) ==
    /\ pc = "loop"
    /\ idx <= Len(pending)
    /\ UNCHANGED <<downloads, queue, scrape, fs, snapshot, unfinished>>
    /\ UNCHANGED <<ignore_ids, pending, failure, failed, handled, bad_count, fileVars, searchVars, raceVars, jobVars>>
    /\ IF request_state # "Closed"
       THEN /\ idx' = idx + 1
            /\ lastOp' = Op("visit", FALSE, <<Current.id, "not closed">>)
            /\ UNCHANGED <<requests, now, pc, wpc, elapsed>>
       ELSE IF doc_count = 0
       THEN /\ requests' = mark_request_closed(Current)
            /\ now' = now + 1
            /\ idx' = idx + 1
            /\ lastOp' = Op("visit", TRUE, <<Current.id, "no documents">>)
            /\ UNCHANGED <<pc, wpc, elapsed>>
       ELSE /\ requests' = update_request(Current, [document_count |-> doc_count,
                                                    department |-> department])
            /\ UNCHANGED now
            /\ IF ~needs_download
               THEN /\ idx' = idx + 1
                    /\ lastOp' = Op("visit", TRUE, <<Current.id, "no download needed">>)
                    /\ UNCHANGED <<pc, wpc, elapsed>>
               ELSE /\ pc' = "download"
                    /\ wpc' = "initiate"
                    /\ elapsed' = 0
                    /\ lastOp' = Op("visit", TRUE, <<Current.id, "download">>)
                    /\ UNCHANGED idx

\* promise.result(config.download_timeout_seconds) and what follows it, lines 172-181:
\* a path is moved and recorded; TimeoutError and InvalidStateError mark the request
\* in error; any other exception leaves visit_pending_requests.
PromiseResult(content) ==
    /\ pc = "download"
    /\ download_docs_for_request_returns
    /\ LET req == Current
           key == <<req.scrape_source, req.request_id>>
           stored == CHOOSE r \in requests : r.id = req.id
           timed_out == ~FutureDone /\ elapsed >= DownloadTimeout
           new_path == normalize_file_name(req)
       IN
       IF wpc = "finished" /\ ~timed_out
       THEN /\ fs' = [fs EXCEPT ![new_path] = content]
            /\ downloads' = downloads \cup
                    {[add_bulk_download(stored, new_path)
                        EXCEPT !.checksum = Md5(content)]}
            /\ now' = now + 1
            /\ handled' = handled \cup {<<key[1], key[2], "downloaded">>}
            /\ pc' = "loop"
            /\ idx' = idx + 1
            /\ lastOp' = Op("visit", TRUE, <<req.id, "downloaded">>)
            /\ UNCHANGED <<requests, failed>>
       ELSE IF timed_out \/ failure \in {"TimeoutError", "InvalidStateError"}
       THEN /\ requests' = mark_request_error(req)
            /\ now' = now + 1
            /\ handled' = handled \cup {<<key[1], key[2], "error">>}
            /\ failed' = failed \cup {<<key[1], key[2], "TimeoutError">>}
            /\ pc' = "loop"
            /\ idx' = idx + 1
            /\ lastOp' = Op("visit", TRUE, <<req.id, "error">>)
            /\ UNCHANGED <<downloads, fs>>
       ELSE /\ failed' = failed \cup {<<key[1], key[2], failure>>}
            /\ pc' = "aborted"
            /\ lastOp' = Op("visit", FALSE, <<req.id, failure>>)
            /\ UNCHANGED <<requests, downloads, now, fs, handled, idx>>
    /\ wpc' = "none"
    /\ failure' = "none"
    /\ UNCHANGED <<queue, scrape, snapshot, unfinished>>
    /\ job_id' = NULL
    /\ polled' = NoPoll
    /\ data' = NoData
    /\ UNCHANGED <<ignore_ids, pending, elapsed, bad_count, fileVars, searchVars, raceVars>>

\* The loop is through.
FinishVisit ==
    /\ pc = "loop"
    /\ idx > Len(pending)
    /\ pc' = "done"
    /\ UNCHANGED <<requests, downloads, queue, scrape, now, fs, snapshot, unfinished, lastOp>>
    /\ UNCHANGED <<ignore_ids, pending, idx, wpc, elapsed, failure, handled, failed, bad_count, fileVars, searchVars, raceVars, jobVars>>

\* What discovery leaves of a request it found: a Pending row and a bulk WorkItem.
DiscoveredRequest(i, request_id) ==
    [id |-> i, date_submitted |-> 100, date_checked |-> 0, department |-> "Police",
     scrape_source |-> "acme.gov", request_id |-> request_id,
     request_status |-> PENDING, document_count |-> 1]

DiscoveredTask(i, request_id) ==
    [id |-> i, target_source |-> "acme.gov", task_type |-> BULK_DOWNLOAD,
     task_target_id |-> request_id, document_name |-> NULL, document_id |-> NULL]

InitVisit ==
    /\ requests = {DiscoveredRequest(1, "R-100"), DiscoveredRequest(2, "R-101")}
    /\ queue = {DiscoveredTask(1, "R-100"), DiscoveredTask(2, "R-101")}
    /\ downloads = {}
    /\ scrape = {}
    /\ now = 0
    /\ fs = [p \in AllPaths |-> NoFile]
    /\ snapshot = {}
    /\ unfinished = {}
    /\ lastOp = Op("init", FALSE, <<>>)
    /\ ignore_ids \in {{}, {"R-101"}}
    /\ pc = "idle"
    /\ pending = <<>>
    /\ idx = 0
    /\ wpc = "none"
    /\ elapsed = 0
    /\ failure = "none"
    /\ handled = {}
    /\ failed = {}
    /\ bad_count = 0
    /\ InitFileIdle

RemoteStates == {"Closed", "Open"}
RemoteDocCounts == {0, 2}

VisitNext ==
    \/ StartVisit
    \/ \E st \in RemoteStates, dc \in RemoteDocCounts, dep \in {"Police", "Fire"},
          nd \in BOOLEAN : VisitRequest(st, dc, dep, nd)
    \/ \E a \in {"job", "no job id", "http error"} : InitiateBulkDownload(a)
    \/ \E a \in PollAnswers : PollBackgroundJob(a)
    \/ \E a \in {"url and filename", "archive missing", "http error"} : FetchArchive(a)
    \/ \E a \in {"complete", "http error"} : TransferArchive(a)
    \/ \E c \in Contents : PromiseResult(c)
    \/ FinishVisit

SpecVisit == InitVisit /\ [][VisitNext]_vars

(***************************************************************************)
(* Writing a file: OverWriteGuard (foiatool.py 35-51), download_file       *)
(* (common.py 61-66) and the two code paths that use them.                 *)
(***************************************************************************)
exists(f, path) == path # "" /\ f[path] # NoFile

\* os.rename(src, dst): dst is replaced.
rename(f, src, dst) == [f EXCEPT ![dst] = f[src], ![src] = NoFile]

\* os.remove(path)
remove(f, path) == [f EXCEPT ![path] = NoFile]

\* OverWriteGuard.__enter__
GuardEnter(f, path) ==
    IF path # "" /\ exists(f, path) THEN rename(f, path, Backup(path)) ELSE f

\* A mutant of GuardExit: the backup is restored when needed but never removed.
GuardExit_KeepBackup(f, path) ==
    IF ~exists(f, path) /\ exists(f, Backup(path))
    THEN rename(f, Backup(path), path)
    ELSE f

\* OverWriteGuard.__exit__
GuardExit(f, path) ==
    IF ~exists(f, path) /\ exists(f, Backup(path))
    THEN rename(f, Backup(path), path)
    ELSE IF exists(f, Backup(path)) THEN remove(f, Backup(path)) ELSE f

\* The path download_file writes: visit_pending_requests has the driver download to
\* its download directory and moves the result; _download_document returns the path
\* it wrote as the document's path.
outpath == IF flow = "direct" THEN Canonical ELSE Staging

\* req.document_paths: "" for a request that has no file yet.
document_paths == IF prior = NoFile THEN "" ELSE Canonical

FileStep(next) ==
    /\ fpc' = next
    /\ UNCHANGED <<requests, downloads, queue, scrape, now, snapshot, unfinished, lastOp>>
    /\ UNCHANGED <<visitVars, flow, prior, searchVars, raceVars, jobVars>>

\* with OverWriteGuard(req.document_paths): foiatool.py 168
EnterGuard ==
    /\ flow = "guarded"
    /\ fpc = "start"
    /\ fs' = GuardEnter(fs, document_paths)
    /\ UNCHANGED chunks
    /\ FileStep("request")

\* _download_document: nextrequest.py 69-76, no guard.
StartDirect ==
    /\ flow = "direct"
    /\ fpc = "start"
    /\ UNCHANGED <<fs, chunks>>
    /\ FileStep("request")

\* requests.get(url, stream=True); r.raise_for_status()
RequestFile(status_ok) ==
    /\ fpc = "request"
    /\ UNCHANGED <<fs, chunks>>
    /\ FileStep(IF status_ok THEN "open" ELSE "raised")

\* open(outpath, "wb")
OpenFile ==
    /\ fpc = "open"
    /\ fs' = [fs EXCEPT ![outpath] = Empty]
    /\ chunks' = 0
    /\ FileStep("write")

\* f.write(chunk), for each chunk of r.iter_content
WriteChunk(content) ==
    /\ fpc = "write"
    /\ chunks < NChunks
    /\ chunks' = chunks + 1
    /\ fs' = [fs EXCEPT ![outpath] = IF chunks + 1 = NChunks THEN content ELSE Partial]
    /\ FileStep(IF chunks + 1 = NChunks THEN "written" ELSE "write")

\* r.iter_content raises in the middle of the transfer.
TransferFails ==
    /\ fpc = "write"
    /\ chunks < NChunks
    /\ UNCHANGED <<fs, chunks>>
    /\ FileStep("raised")

\* pathlib.Path(result).rename(new_path): foiatool.py 174-176
MoveResult ==
    /\ flow = "guarded"
    /\ fpc = "written"
    /\ fs' = rename(fs, Staging, Canonical)
    /\ UNCHANGED chunks
    /\ FileStep("moved")

\* OverWriteGuard.__exit__, reached with the file moved or with the exception.
ExitGuard ==
    /\ flow = "guarded"
    /\ fpc \in {"moved", "raised"}
    /\ fs' = GuardExit(fs, document_paths)
    /\ UNCHANGED chunks
    /\ FileStep(IF fpc = "moved" THEN "done" ELSE "failed")

\* _download_document returns outpath, or the exception leaves it.
EndDirect ==
    /\ flow = "direct"
    /\ fpc \in {"written", "raised"}
    /\ UNCHANGED <<fs, chunks>>
    /\ FileStep(IF fpc = "written" THEN "done" ELSE "failed")

\* The next download of the same file.
NextDownload ==
    /\ fpc \in {"done", "failed"}
    /\ \E fl \in {"guarded", "direct"} : flow' = fl
    /\ prior' = fs[Canonical]
    /\ fpc' = "start"
    /\ chunks' = 0
    /\ UNCHANGED <<requests, downloads, queue, scrape, now, fs, snapshot, unfinished, lastOp>>
    /\ UNCHANGED <<visitVars, searchVars, raceVars, jobVars>>

InitFiles ==
    /\ InitStore
    /\ snapshot = {}
    /\ unfinished = {}
    /\ lastOp = Op("init", FALSE, <<>>)
    /\ InitVisitIdle
    /\ flow \in {"guarded", "direct"}
    /\ fpc = "start"
    /\ prior \in {NoFile} \cup Contents
    /\ chunks = 0
    /\ fs = [p \in AllPaths |-> IF p = Canonical THEN prior ELSE NoFile]
    /\ InitSearchIdle

FilesNext ==
    \/ EnterGuard
    \/ StartDirect
    \/ \E ok \in BOOLEAN : RequestFile(ok)
    \/ OpenFile
    \/ \E c \in Contents : WriteChunk(c)
    \/ TransferFails
    \/ MoveResult
    \/ ExitGuard
    \/ EndDirect
    \/ NextDownload

SpecFiles == InitFiles /\ [][FilesNext]_vars

(***************************************************************************)
(* repair_data: foiatool.py 199-223.                                       *)
(***************************************************************************)
\* req.document_paths: the path recorded for the request's download.
document_paths_of(req) ==
    LET mine == {d \in downloads : d.request = req.id} IN
    IF mine = {} THEN ""
    ELSE (CHOOSE d \in mine : \A e \in mine : e.id <= d.id).download_path

\* fname.startswith(".com.google.Chrome")
is_chrome_temp(path) == path = "/dl/.com.google.Chrome.tmp"

\* pbar = tqdm.tqdm(dbsess.get_requests()); bad_count = 0
RepairStart ==
    /\ pc = "repair start"
    /\ pending' = ById(get_requests)
    /\ idx' = 1
    /\ bad_count' = 0
    /\ pc' = "repair"
    /\ UNCHANGED <<requests, downloads, queue, scrape, now, fs, snapshot, unfinished, lastOp>>
    /\ UNCHANGED <<ignore_ids, wpc, elapsed, failure, handled, failed, fileVars, searchVars, raceVars, jobVars>>

\* A mutant of RepairRequest: the ignore list is not looked at.
RepairRequest_NoIgnoreList ==
    /\ pc = "repair"
    /\ idx <= Len(pending)
    /\ LET req == pending[idx]
           path == document_paths_of(req)
       IN
       IF /\ req.request_status = DOWNLOADED
          /\ (~exists(fs, path) \/ is_chrome_temp(path))
       THEN /\ requests' = mark_request_pending(req)
            /\ now' = now + 1
            /\ bad_count' = bad_count + 1
            /\ handled' = handled \cup {<<req.scrape_source, req.request_id, "re-enqueued">>}
            /\ lastOp' = Op("repair", TRUE, <<req.id, "re-enqueued">>)
       ELSE /\ lastOp' = Op("repair", FALSE, <<req.id, "kept">>)
            /\ UNCHANGED <<requests, now, bad_count, handled>>
    /\ idx' = idx + 1
    /\ UNCHANGED <<downloads, queue, scrape, fs, snapshot, unfinished>>
    /\ UNCHANGED <<ignore_ids, pc, pending, wpc, elapsed, failure, failed, fileVars, searchVars, raceVars, jobVars>>

\* One pass of the loop: an ignored request is marked in error; a DOWNLOADED request
\* whose file is not at its recorded path is marked pending.
RepairRequest ==
    /\ pc = "repair"
    /\ idx <= Len(pending)
    /\ LET req == Current
           path == document_paths_of(req)
       IN
       IF req.request_id \in ignore_ids
       THEN /\ requests' = mark_request_error(req)
            /\ now' = now + 1
            /\ bad_count' = bad_count + 1
            /\ handled' = handled \cup {<<req.scrape_source, req.request_id, "ignored">>}
            /\ lastOp' = Op("repair", TRUE, <<req.id, "ignored">>)
       ELSE IF /\ req.request_status = DOWNLOADED
               /\ (~exists(fs, path) \/ is_chrome_temp(path))
       THEN /\ requests' = mark_request_pending(req)
            /\ now' = now + 1
            /\ bad_count' = bad_count + 1
            /\ handled' = handled \cup {<<req.scrape_source, req.request_id, "re-enqueued">>}
            /\ lastOp' = Op("repair", TRUE, <<req.id, "re-enqueued">>)
       ELSE /\ lastOp' = Op("repair", FALSE, <<req.id, "kept">>)
            /\ UNCHANGED <<requests, now, bad_count, handled>>
    /\ idx' = idx + 1
    /\ UNCHANGED <<downloads, queue, scrape, fs, snapshot, unfinished>>
    /\ UNCHANGED <<ignore_ids, pc, pending, wpc, elapsed, failure, failed, fileVars, searchVars, raceVars, jobVars>>

\* logging.info(f"Found {bad_count} broken records"); visit_pending_requests follows.
RepairDone ==
    /\ pc = "repair"
    /\ idx > Len(pending)
    /\ pc' = "repaired"
    /\ UNCHANGED <<requests, downloads, queue, scrape, now, fs, snapshot, unfinished, lastOp>>
    /\ UNCHANGED <<ignore_ids, pending, idx, wpc, elapsed, failure, handled, failed,
                   bad_count, fileVars, searchVars, raceVars, jobVars>>

\* A request that was downloaded: its row and the record of its archive.
DownloadedRequest(i, request_id, status) ==
    [DiscoveredRequest(i, request_id) EXCEPT !.request_status = status]

RecordOf(i, req, content) ==
    [id |-> i, request |-> req.id, document_id |-> NULL, date_downloaded |-> 0,
     is_bulk |-> TRUE, download_path |-> normalize_file_name(req),
     checksum |-> Md5(content), document_count |-> req.document_count]

\* The file of a record: where it was recorded, moved with its bytes unchanged, or gone.
Placements == {"in place", "moved", "lost"}

Placed(f, path, content, placement) ==
    CASE placement = "in place" -> [f EXCEPT ![path] = content]
      [] placement = "moved" -> [f EXCEPT ![MovedTo(path)] = content]
      [] OTHER -> f

InitRepair ==
    \E s1, s2 \in RequestStatus, p1, p2 \in Placements :
        LET r1 == DownloadedRequest(1, "R-100", s1)
            r2 == DownloadedRequest(2, "R-101", s2)
            none == [p \in AllPaths |-> NoFile]
        IN
        /\ requests = {r1, r2}
        /\ downloads = {RecordOf(1, r1, "bytes1"), RecordOf(2, r2, "bytes2")}
        /\ fs = Placed(Placed(none, normalize_file_name(r1), "bytes1", p1),
                       normalize_file_name(r2), "bytes2", p2)
        /\ queue = {}
        /\ scrape = {}
        /\ now = 0
        /\ snapshot = {}
        /\ unfinished = {}
        /\ lastOp = Op("init", FALSE, <<>>)
        /\ ignore_ids \in {{}, {"R-101"}}
        /\ pc = "repair start"
        /\ pending = <<>>
        /\ idx = 0
        /\ wpc = "none"
        /\ elapsed = 0
        /\ failure = "none"
        /\ handled = {}
        /\ failed = {}
        /\ bad_count = 0
        /\ InitFileIdle

RepairNext ==
    \/ RepairStart
    \/ RepairRequest
    \/ RepairDone
    \/ VisitNext

SpecRepair == InitRepair /\ [][RepairNext]_vars

(***************************************************************************)
(* fetch_new_requests: foiatool.py 68-121.                                 *)
(***************************************************************************)
\* config.url of the portal that is searched.
ConfigUrl == "acme.gov"

\* What the remote search answers, the same on every run: item["id"] of the request
\* search and item["pretty_id"] of the document search.
SearchResults == <<"R-100", "R-101">>
DocumentResults == <<"R-100">>

\* A request with that id of the portal is stored.
Known(item) == \E r \in requests : r.scrape_source = ConfigUrl /\ r.request_id = item

\* add_pending_document_request(config.url, id): a Pending request on first discovery.
add_pending_document_request(source, item) ==
    IF get_request(source, item) # {} THEN requests
    ELSE requests \cup
        {[DiscoveredRequest(NextId(requests), item)
            EXCEPT !.scrape_source = source, !.date_checked = now + 1]}

\* add_pending_document_request and the Bulk-download-all WorkItem it enqueues.
AddPending(name, item) ==
    LET found == get_task(BULK_DOWNLOAD, ConfigUrl, item, NULL) # {} IN
    /\ found \/ (Cardinality(queue) < MaxQueue /\ NextId(queue) <= MaxRowId)
    /\ requests' = add_pending_document_request(ConfigUrl, item)
    /\ queue' = IF found THEN queue
                ELSE queue \cup {WorkQueueRow(ConfigUrl, BULK_DOWNLOAD, item, NULL, NULL)}
    /\ lastOp' = Op(name, found, <<ConfigUrl, BULK_DOWNLOAD, item, Known(item)>>)

\* last_update, initial_count; the request search starts.
StartDiscovery ==
    /\ pc = "idle"
    /\ now < MaxTime
    /\ pc' = "search requests"
    /\ idx' = 1
    /\ UNCHANGED <<requests, downloads, queue, scrape, now, fs, snapshot, unfinished, lastOp>>
    /\ UNCHANGED <<ignore_ids, pending, wpc, elapsed, failure, handled, failed, bad_count,
                   fileVars, searchVars, raceVars, jobVars>>

\* One item of the request search, lines 85-88: the lookup is called as
\* get_request(item["id"], config.url).
DiscoverRequest ==
    /\ pc = "search requests"
    /\ idx <= Len(SearchResults)
    /\ LET item == SearchResults[idx] IN
       IF get_request(item, ConfigUrl) # {} \/ item \in ignore_ids
       THEN /\ lastOp' = Op("discover skipped", Known(item),
                            <<ConfigUrl, BULK_DOWNLOAD, item, Known(item)>>)
            /\ UNCHANGED <<storeVars, fs, snapshot, unfinished>>
       ELSE /\ AddPending("discover request", item)
            /\ UNCHANGED <<downloads, scrape, now, fs, snapshot, unfinished>>
    /\ idx' = idx + 1
    /\ UNCHANGED <<ignore_ids, pc, pending, wpc, elapsed, failure, handled, failed,
                   bad_count, fileVars, searchVars, raceVars, jobVars>>

\* for term in config.document_search_terms
StartDocumentSearch ==
    /\ pc = "search requests"
    /\ idx > Len(SearchResults)
    /\ pc' = "search documents"
    /\ idx' = 1
    /\ UNCHANGED <<requests, downloads, queue, scrape, now, fs, snapshot, unfinished, lastOp>>
    /\ UNCHANGED <<ignore_ids, pending, wpc, elapsed, failure, handled, failed, bad_count,
                   fileVars, searchVars, raceVars, jobVars>>

\* One item of the document search, lines 105-112: skipped only for a parent
\* request that is found and DOWNLOADED.
DiscoverDocument ==
    /\ pc = "search documents"
    /\ idx <= Len(DocumentResults)
    /\ LET item == DocumentResults[idx]
           parent_request == get_request(item, ConfigUrl)
       IN
       IF parent_request # {} /\ \A r \in parent_request : r.request_status = DOWNLOADED
       THEN /\ lastOp' = Op("discover skipped", Known(item),
                            <<ConfigUrl, BULK_DOWNLOAD, item, Known(item)>>)
            /\ UNCHANGED <<storeVars, fs, snapshot, unfinished>>
       ELSE /\ AddPending("discover document", item)
            /\ UNCHANGED <<downloads, scrape, now, fs, snapshot, unfinished>>
    /\ idx' = idx + 1
    /\ UNCHANGED <<ignore_ids, pc, pending, wpc, elapsed, failure, handled, failed,
                   bad_count, fileVars, searchVars, raceVars, jobVars>>

\* dbsess.update_scrape_date(config.url), line 118
FinishDiscovery ==
    /\ pc = "search documents"
    /\ idx > Len(DocumentResults)
    /\ scrape' = update_scrape_date(ConfigUrl)
    /\ now' = now + 1
    /\ pc' = "idle"
    /\ lastOp' = Op("update_scrape_date", \E m \in scrape : m.scrape_source = ConfigUrl,
                    <<ConfigUrl>>)
    /\ UNCHANGED <<requests, downloads, queue, fs, snapshot, unfinished>>
    /\ UNCHANGED <<ignore_ids, pending, idx, wpc, elapsed, failure, handled, failed,
                   bad_count, fileVars, searchVars, raceVars, jobVars>>

InitDiscover ==
    /\ InitStore
    /\ fs = [p \in AllPaths |-> NoFile]
    /\ snapshot = {}
    /\ unfinished = {}
    /\ lastOp = Op("init", FALSE, <<>>)
    /\ ignore_ids \in {{}, {"R-101"}, {"R-100"}}
    /\ pc = "idle"
    /\ pending = <<>>
    /\ idx = 0
    /\ wpc = "none"
    /\ elapsed = 0
    /\ failure = "none"
    /\ handled = {}
    /\ failed = {}
    /\ bad_count = 0
    /\ InitFileIdle

\* Discovery runs, and between its steps the work items are worked off and the
\* requests marked by what became of them.
DiscoverNext ==
    \/ StartDiscovery
    \/ DiscoverRequest
    \/ StartDocumentSearch
    \/ DiscoverDocument
    \/ FinishDiscovery
    \/ \E t \in queue : MarkTaskCompleted(t)
    \/ \E r \in requests : MarkRequestClosed(r)
    \/ \E r \in requests : MarkRequestError(r)

SpecDiscover == InitDiscover /\ [][DiscoverNext]_vars

(***************************************************************************)
(* NextRequestAPI._search: nextrequest.py 126-150.                         *)
(***************************************************************************)
\* The page sizes of a remote source.
PageSizes == {1, 2}

\* The total_count a source reports: the right one, or one off.
ReportedTotals(items) == {t \in {items - 1, items, items + 1} : t >= 0}

\* _perform_search(session, term, page, ...): the number of items on that page.
\* Every page from MaxPage - 1 on is past the last item of any source of the model.
perform_search(p) ==
    LET left == remote.items - p * remote.page_size IN
    IF left <= 0 THEN 0
    ELSE IF left < remote.page_size THEN left ELSE remote.page_size

SearchStep ==
    /\ UNCHANGED <<requests, downloads, queue, scrape, now, fs, snapshot, unfinished, lastOp>>
    /\ UNCHANGED <<visitVars, flow, fpc, prior, chunks, remote, raceVars, jobVars>>

\* page = 0; consumed = 0; resp = the first page; total_count = resp["total_count"]
StartSearch ==
    /\ spc = "idle"
    /\ page' = 0
    /\ consumed' = 0
    /\ resp' = perform_search(0)
    /\ total_count' = remote.total_count
    /\ spc' = "loop"
    /\ SearchStep

\* A mutant of SearchPage: page is not advanced and the same page is requested again.
SearchPage_SamePage ==
    /\ spc = "loop"
    /\ consumed < total_count
    /\ consumed' = consumed + resp
    /\ page' = page
    /\ resp' = perform_search(page')
    /\ spc' = "loop"
    /\ UNCHANGED total_count
    /\ SearchStep

\* One pass of "while consumed < total_count": the page is yielded and the next
\* one is requested.
SearchPage ==
    /\ spc = "loop"
    /\ consumed < total_count
    /\ consumed' = consumed + resp
    /\ page' = IF page < MaxPage THEN page + 1 ELSE MaxPage - 1
    /\ resp' = perform_search(page')
    /\ spc' = "loop"
    /\ UNCHANGED total_count
    /\ SearchStep

\* consumed < total_count is false: the generator is exhausted.
SearchStop ==
    /\ spc = "loop"
    /\ ~(consumed < total_count)
    /\ spc' = "stopped"
    /\ UNCHANGED <<page, consumed, total_count, resp>>
    /\ SearchStep

InitSearch ==
    /\ InitStore
    /\ fs = [p \in AllPaths |-> NoFile]
    /\ snapshot = {}
    /\ unfinished = {}
    /\ lastOp = Op("init", FALSE, <<>>)
    /\ InitVisitIdle
    /\ flow = "none"
    /\ fpc = "idle"
    /\ prior = NoFile
    /\ chunks = 0
    /\ page = 0
    /\ consumed = 0
    /\ total_count = 0
    /\ resp = 0
    /\ spc = "idle"
    /\ callers = [c \in Callers |-> NoCall]
    /\ job_id = NULL
    /\ polled = NoPoll
    /\ data = NoData
    /\ \E n \in 0..MaxItems, size \in PageSizes :
          \E t \in ReportedTotals(n) :
              remote = [items |-> n, page_size |-> size, total_count |-> t]

SearchNext ==
    \/ StartSearch
    \/ SearchPage
    \/ SearchStop

SpecSearch == InitSearch /\ [][SearchNext]_vars

\* The generator is run to its end by the loop that consumes it.
SpecSearchFair == SpecSearch /\ WF_vars(SearchNext)

(***************************************************************************)
(* Two processes in add_*_task at once: data.py 154-200.  get_task and     *)
(* WorkQueue.create are two statements, each committed on its own.         *)
(***************************************************************************)
\* The tasks the callers add: <<task_type, target_source, target_id, document_id>>.
RacedTasks ==
    {<<BULK_DOWNLOAD, "acme.gov", "R-100", NULL>>,
     <<BULK_DOWNLOAD, "acme.gov", "R-101", NULL>>,
     <<DOWNLOAD, "acme.gov", "R-100", "D-1">>}

RaceStep ==
    /\ UNCHANGED <<requests, downloads, scrape, now, fs, snapshot, unfinished, lastOp>>
    /\ UNCHANGED <<visitVars, fileVars, searchVars, jobVars>>

\* A process calls add_bulk_download_task or add_download_task.
CallAddTask(c, task) ==
    /\ callers[c].pc \in {"idle", "returned"}
    /\ callers' = [callers EXCEPT ![c] = [pc |-> "get_task", task |-> task]]
    /\ UNCHANGED queue
    /\ RaceStep

\* if self.get_task(...): return
CheckTask(c) ==
    /\ callers[c].pc = "get_task"
    /\ LET task == callers[c].task IN
       callers' = [callers EXCEPT ![c].pc =
                      IF get_task(task[1], task[2], task[3], task[4]) # {}
                      THEN "returned" ELSE "create"]
    /\ UNCHANGED queue
    /\ RaceStep

\* WorkQueue.create(...)
CreateTask(c) ==
    /\ callers[c].pc = "create"
    /\ Cardinality(queue) < MaxQueue + 1
    /\ NextId(queue) <= MaxRowId
    /\ LET task == callers[c].task IN
       queue' = queue \cup {WorkQueueRow(task[2], task[1], task[3],
                                         IF task[1] = DOWNLOAD THEN "a.pdf" ELSE NULL,
                                         task[4])}
    /\ callers' = [callers EXCEPT ![c].pc = "returned"]
    /\ RaceStep

InitRace ==
    /\ InitStore
    /\ fs = [p \in AllPaths |-> NoFile]
    /\ snapshot = {}
    /\ unfinished = {}
    /\ lastOp = Op("init", FALSE, <<>>)
    /\ InitVisitIdle
    /\ InitFileIdle

RaceNext ==
    \/ \E c \in Callers, task \in RacedTasks : CallAddTask(c, task)
    \/ \E c \in Callers : CheckTask(c)
    \/ \E c \in Callers : CreateTask(c)

SpecRace == InitRace /\ [][RaceNext]_vars

(***************************************************************************)
(* The claims about the orchestrator, the file writes and the repair.      *)
(***************************************************************************)
\* C4: when the run is over, no item whose outcome was written (its download
\* recorded, or its request marked in error) is left in the work queue.
C4_ProcessedItemsLeaveQueue ==
    pc \in {"done", "aborted"} =>
        \A h \in handled :
            ~\E t \in queue : t.target_source = h[1] /\ t.task_target_id = h[2]

\* C5: an item whose download raised something other than a timeout has its request
\* marked in error, and the run is not aborted.
C5_FailureMarksErrorRunContinues ==
    \A f \in failed :
        f[3] # "TimeoutError" =>
            /\ pc # "aborted"
            /\ \E r \in requests : /\ r.scrape_source = f[1]
                                   /\ r.request_id = f[2]
                                   /\ r.request_status = ERROR

\* C6: the orchestrator waits on an item no longer than download_timeout_seconds.
C6_WaitEndsAtTimeout ==
    pc = "download" => elapsed <= DownloadTimeout

\* C7: no truncated or partly written file is at the canonical path, and after a
\* failed transfer the canonical path holds what it held before (nothing, or the
\* complete earlier file).
C7_FailedTransferKeepsCanonical ==
    /\ fs[Canonical] \notin {Empty, Partial}
    /\ fpc = "failed" => fs[Canonical] = prior

\* C8: after the repair loop, every record whose bytes are on disk points to a file
\* with its checksum, and its request was not re-enqueued.
C8_RepairRelocatesMovedFile ==
    pc = "repaired" =>
        \A d \in downloads :
            (\E p \in AllPaths : exists(fs, p) /\ Md5(fs[p]) = d.checksum) =>
                /\ exists(fs, d.download_path)
                /\ Md5(fs[d.download_path]) = d.checksum
                /\ \A r \in requests :
                    r.id = d.request =>
                        <<r.scrape_source, r.request_id, "re-enqueued">> \notin handled

(***************************************************************************)
(* The claims about the Store.                                             *)
(***************************************************************************)
EnqueueOps == {"add_bulk_download_task", "add_download_task", "add_update_task"}

\* C1: the queue holds at most one WorkItem per (target_source, task_type,
\* task_target_id, document_id), and enqueueing a key that is already in the queue
\* leaves the queue as it was.
C1_EnqueueIdempotent ==
    /\ [](\A t1, t2 \in queue : TaskKey(t1) = TaskKey(t2) => t1 = t2)
    /\ [][(/\ lastOp'.op \in EnqueueOps
           /\ \E t \in queue : TaskKey(t) = lastOp'.key) => queue' = queue]_vars

\* An enqueue found its key in a queue of two items, and the queue still holds two.
C1_Witness ==
    /\ lastOp.op \in EnqueueOps
    /\ lastOp.hit
    /\ \E t \in queue : TaskKey(t) = lastOp.key
    /\ Cardinality(queue) = 2

\* C2: at most one Request row per (scrape_source, request_id); add_request for a pair
\* that exists adds no row and sets that row's department, document_count, status and
\* date_checked.
C2_UpsertRequest ==
    /\ [](\A r1, r2 \in requests :
            (r1.scrape_source = r2.scrape_source /\ r1.request_id = r2.request_id)
                => r1 = r2)
    /\ [][LET k == lastOp'.key IN
          (lastOp'.op = "add_request") =>
            \A r \in requests :
                (r.scrape_source = k[1] /\ r.request_id = k[2]) =>
                    /\ Cardinality(requests') = Cardinality(requests)
                    /\ \E u \in requests' :
                        /\ u.id = r.id
                        /\ u.request_status = k[3]
                        /\ u.department = k[5]
                        /\ u.document_count = k[6]
                        /\ u.date_checked = now']_vars

\* add_request found the pair it was called for, with another request in the table.
C2_Witness ==
    /\ lastOp.op = "add_request"
    /\ lastOp.hit
    /\ Cardinality(requests) = 2

DownloadOps == {"add_download", "add_bulk_download"}

\* C10: recording a download adds exactly one DocumentDownload row; a bulk one has
\* is_bulk, no document_id and the document_count the request has stored at that
\* moment, a single-document one has no is_bulk and document_count 1.
C10_RecordedDownload ==
    [][lastOp'.op \in DownloadOps =>
        \E d \in downloads' :
            /\ d \notin downloads
            /\ downloads' = downloads \cup {d}
            /\ IF lastOp'.op = "add_bulk_download"
               THEN /\ d.is_bulk
                    /\ d.document_id = NULL
                    /\ \E r \in requests : r.id = d.request
                                           /\ d.document_count = r.document_count
               ELSE /\ ~d.is_bulk
                    /\ d.document_count = 1]_vars

\* A bulk download of a request of two documents and a single-document download of
\* that request are both recorded.
C10_Witness ==
    \E b, d \in downloads :
        /\ b.is_bulk /\ b.document_count = 2
        /\ ~d.is_bulk /\ d.request = b.request

(***************************************************************************)
(* The claims about discovery, the request states and the bulk download.   *)
(***************************************************************************)
DiscoverOps == {"discover request", "discover document"}

\* C11: discovery adds a WorkItem only for a search result whose (source, id) is
\* not yet stored as a request; a result that is known enqueues nothing.
C11_DiscoveryEnqueuesOnlyUnknown ==
    [][\A item \in RequestIds :
          (/\ (DiscoverRequest \/ DiscoverDocument)
           /\ lastOp'.op \in DiscoverOps
           /\ lastOp'.key[3] = item
           /\ Known(item))
          => queue' = queue]_vars

\* C12: a request in Error or Closed changes its status only by being marked
\* pending again (the re-enqueue of redownload and repair); a Pending request
\* moves only to Closed or Error.
C12_StatusStateMachine ==
    [][\A r \in requests, q \in requests' :
          (q.id = r.id /\ q.request_status # r.request_status) =>
              \/ /\ r.request_status = PENDING
                 /\ q.request_status \in {CLOSED, ERROR}
              \/ /\ r.request_status \in {CLOSED, ERROR}
                 /\ q.request_status = PENDING
                 /\ lastOp'.op = "mark_request_pending"]_vars

C14_DownloadOnlyWhenClosed ==
    [][\A st \in RemoteStates \ {"Closed"}, dc \in RemoteDocCounts,
          dep \in {"Police", "Fire"}, nd \in BOOLEAN :
          VisitRequest(st, dc, dep, nd) =>
              /\ pc' = "loop"
              /\ wpc' = wpc
              /\ downloads' = downloads
              /\ requests' = requests]_vars

\* A request reported as not closed was passed over while nothing is downloading.
C14_Witness ==
    /\ lastOp.op = "visit"
    /\ lastOp.key[2] = "not closed"
    /\ pc = "loop"
    /\ wpc = "none"

\* C15: the paginated search stops after finitely many page requests, whatever
\* total the remote source reports.
C15_SearchTerminates == <>(spc = "stopped")

\* C16: a work item leaves the queue only by mark_task_completed on that item,
\* called by the process that read it; no other call removes a row.
C16_RemovedOnlyByComplete ==
    [][\A t \in queue :
          t \notin queue' =>
              /\ lastOp'.op = "mark_task_completed"
              /\ lastOp'.key = <<t.id>>
              /\ t \in snapshot]_vars

\* C17: there is one ScrapeMetadata row per source; update_scrape_date leaves the
\* row of its source with the time of the call and every other row as it was, and
\* no row is ever dropped.
C17_OneCheckpointPerSource ==
    /\ [](\A m1, m2 \in scrape : m1.scrape_source = m2.scrape_source => m1 = m2)
    /\ [][lastOp'.op = "update_scrape_date" =>
            /\ \E m \in scrape' : /\ m.scrape_source = lastOp'.key[1]
                                  /\ m.last_scrape_date = now'
            /\ \A m \in scrape : m.scrape_source # lastOp'.key[1] => m \in scrape'
            /\ \A m \in scrape' : m.scrape_source # lastOp'.key[1] => m \in scrape]_vars
    /\ [][\A m \in scrape : \E n \in scrape' : n.scrape_source = m.scrape_source]_vars

\* Two sources have a checkpoint and the last call updated an existing row.
C17_Witness ==
    /\ lastOp.op = "update_scrape_date"
    /\ lastOp.hit
    /\ Cardinality(scrape) = 2

\* C18: however the steps of two callers that add the same task interleave, the
\* queue holds one work item per (source, task_type, task_target_id, document_id).
C18_EnqueueRaceFree ==
    \A t1, t2 \in queue : TaskKey(t1) = TaskKey(t2) => t1 = t2

\* C19: the worker goes Initiate, Poll*, Fetch, Transfer: the archive is requested
\* only after a poll that reported the job as not working, every poll asks for the
\* job id that Initiate returned, and the transfer starts only after the request
\* for the archive answered with a url and a filename.
C19_BulkDownloadOrder ==
    /\ [][wpc' # wpc =>
            <<wpc, wpc'>> \in
                {<<"none", "initiate">>, <<"initiate", "poll">>, <<"poll", "fetch">>,
                 <<"fetch", "transfer">>, <<"transfer", "finished">>,
                 <<"initiate", "raised">>, <<"poll", "raised">>, <<"fetch", "raised">>,
                 <<"transfer", "raised">>, <<"finished", "none">>,
                 <<"raised", "none">>}]_vars
    /\ [](wpc \in {"fetch", "transfer", "finished"} =>
            polled = [job_id |-> job_id, working |-> "False"])
    /\ [](polled # NoPoll => job_id \in JobIds /\ polled.job_id = job_id)
    /\ [](wpc \in {"transfer", "finished"} => data = [url |-> TRUE, filename |-> TRUE])

\* The transfer of an archive has started after the job was polled as working and
\* then as not working.
C19_Witness ==
    /\ wpc = "transfer"
    /\ elapsed > 0
    /\ polled.working = "False"
    /\ job_id = "J2"

\* C20: when Initiate gets no job id the worker raises DownloadException at once:
\* no poll and no request for the archive was made, no file is written, and the
\* worker does not start again.
C20_NoJobIdRaises ==
    /\ [][InitiateBulkDownload("no job id") =>
            /\ wpc' = "raised"
            /\ failure' = "DownloadException"
            /\ fs' = fs]_vars
    /\ []((wpc = "raised" /\ job_id = NULL) =>
            /\ polled = NoPoll
            /\ data = NoData
            /\ \A p \in AllPaths : fs[p] = NoFile \/ \E d \in downloads : d.download_path = p)
    /\ [][wpc = "raised" => wpc' \in {"raised", "none"}]_vars

\* Initiate got no job id and the worker has raised.
C20_Witness ==
    /\ wpc = "raised"
    /\ failure = "DownloadException"
    /\ job_id = NULL

(***************************************************************************)
(* The claims about pagination, the ignore list, repair and the frames.    *)
(***************************************************************************)
\* C21: the search starts at the first page, each yield is followed by the request
\* for the next page number, and once the items consumed have reached the
\* total_count the source reported nothing more is yielded or requested.
C21_PagesInOrder ==
    /\ [][StartSearch => page' = 0 /\ consumed' = 0]_vars
    /\ [][SearchPage =>
            /\ consumed < total_count
            /\ (page < MaxPage - 1 => page' = page + 1)
            /\ page' # page]_vars
    /\ [][(spc = "loop" /\ consumed >= total_count) =>
            page' = page /\ consumed' = consumed /\ resp' = resp]_vars

\* A search over several pages has stopped with every item of the source consumed.
C21_Witness ==
    /\ spc = "stopped"
    /\ page >= 2
    /\ consumed = total_count
    /\ consumed = remote.items

\* C22: no step of discovery, in the request search or in the document search,
\* adds a work item for a request id of the ignore list.
C22_IgnoredNeverEnqueued ==
    [][(DiscoverRequest \/ DiscoverDocument) =>
          \A t \in queue' \ queue : t.task_target_id \notin ignore_ids]_vars

\* The repair loop is through: the visit that concludes repair_data is due, under
\* way or over.
AfterRepairLoop == pc \in {"repaired", "loop", "download", "done", "aborted"}

\* C23: after the repair loop every request of the ignore list is in Error, whether
\* its file is on disk or not, and the visit that follows neither takes it up nor
\* downloads it.
C23_IgnoredMarkedError ==
    /\ AfterRepairLoop =>
          \A r \in requests : r.request_id \in ignore_ids => r.request_status = ERROR
    /\ pc \in {"loop", "download"} =>
          \A i \in 1..Len(pending) : pending[i].request_id \notin ignore_ids
    /\ \A h \in handled : h[2] \in ignore_ids => h[3] = "ignored"
    /\ AfterRepairLoop =>
          \A r \in requests : r.request_id \in ignore_ids =>
              Cardinality({d \in downloads : d.request = r.id}) = 1

\* The run is over; a request of the ignore list whose file is in place is in Error.
C23_Witness ==
    /\ pc = "done"
    /\ \E r \in requests :
          /\ r.request_id \in ignore_ids
          /\ r.request_status = ERROR
          /\ exists(fs, document_paths_of(r))
          /\ <<r.scrape_source, r.request_id, "ignored">> \in handled

\* The evidence of a record is lost: no file at its path and none with its checksum.
Lost(d) ==
    /\ ~exists(fs, d.download_path)
    /\ ~\E p \in AllPaths : exists(fs, p) /\ Md5(fs[p]) = d.checksum

\* C24: after the repair loop the requests re-enqueued are exactly those, not on the
\* ignore list, whose record has lost its evidence, each counted as broken; a
\* request whose file is at its recorded path is not re-enqueued.
C24_RepairReenqueuesLost ==
    pc = "repaired" =>
        /\ \A r \in requests, d \in downloads :
              (d.request = r.id /\ r.request_id \notin ignore_ids) =>
                  /\ Lost(d) => r.request_status = PENDING
                  /\ <<r.scrape_source, r.request_id, "re-enqueued">> \in handled
                        => Lost(d)
        /\ bad_count >= Cardinality({d \in downloads : Lost(d) /\
                \E r \in requests : d.request = r.id /\ r.request_id \notin ignore_ids})

\* C25: no step drops a request row, and no step drops or changes a download row;
\* recording a download of a document that has one already adds a row and leaves
\* the earlier row as it was.
C25_AppendOnly ==
    [][/\ \A r \in requests : \E q \in requests' : q.id = r.id
       /\ Cardinality(requests') >= Cardinality(requests)
       /\ downloads \subseteq downloads'
       /\ lastOp'.op \in DownloadOps =>
             Cardinality(downloads') = Cardinality(downloads) + 1]_vars

\* The same document of the same request was recorded twice: both rows are there.
C25_Witness ==
    /\ lastOp.op \in DownloadOps
    /\ \E d1, d2 \in downloads :
          /\ d1.id # d2.id
          /\ d1.request = d2.request
          /\ d1.document_id = d2.document_id
          /\ d1.download_path = d2.download_path
          /\ d1.date_downloaded < d2.date_downloaded

\* C26: when the guard exits, after a success or a failure, no backup file is left;
\* the backup is removed only when a file is at the guarded path, which is then
\* left as it is, and it is renamed back exactly when the guarded path is absent.
C26_GuardLeavesNoBackup ==
    /\ [][ExitGuard =>
            /\ \A p \in AllPaths : fs'[Backup(p)] = NoFile
            /\ exists(fs, document_paths) =>
                  fs'[document_paths] = fs[document_paths]
            /\ (~exists(fs, document_paths) /\ exists(fs, Backup(document_paths))) =>
                  fs'[document_paths] = fs[Backup(document_paths)]
            /\ \A p \in AllPaths :
                  (p # Backup(document_paths) /\ fs'[p] # fs[p]) =>
                      p = document_paths /\ ~exists(fs, p)]_vars
    /\ []((flow = "guarded" /\ fpc \in {"done", "failed"}) =>
            \A p \in AllPaths : fs[Backup(p)] = NoFile)

\* The guard exited after a failed transfer and put the earlier file back.
C26_Witness ==
    /\ flow = "guarded"
    /\ fpc = "failed"
    /\ prior \in Contents
    /\ fs[Canonical] = prior
    /\ fs[Backup(Canonical)] = NoFile
    /\ fs[Staging] \in {Empty, Partial}

\* C27: a poll keeps the worker polling only when the job list has a job with the
\* worker's job id in status "working"; when the id is not in the list, or its job
\* has any other status, the worker goes on to request the archive.
C27_PollWorkingOnlyForOwnJob ==
    [][\A a \in PollAnswers :
          (a.ok /\ PollBackgroundJob(a)) =>
              /\ wpc' = "poll" <=>
                    \E job \in a.jobs : job.id = job_id /\ job.status = "working"
              /\ wpc' = "fetch" <=>
                    ~\E job \in a.jobs : job.id = job_id /\ job.status = "working"
              /\ polled'.job_id = job_id]_vars

\* The worker left the poll loop for the archive while its job id was polled as not
\* working, after at least one poll that had it working.
C27_Witness ==
    /\ wpc = "fetch"
    /\ elapsed > 0
    /\ polled = [job_id |-> job_id, working |-> "False"]

\* C28: add_request for a (scrape_source, request_id) that is stored leaves the id,
\* the scrape_source, the request_id and the date_submitted of that row as they
\* were, whatever request_date is passed, and leaves every other row as it was.
C28_UpsertFrame ==
    [][(lastOp'.op = "add_request" /\ lastOp'.hit) =>
          /\ Cardinality(requests') = Cardinality(requests)
          /\ \A r \in requests :
                IF r.scrape_source = lastOp'.key[1] /\ r.request_id = lastOp'.key[2]
                THEN \E q \in requests' :
                        /\ q.id = r.id
                        /\ q.scrape_source = r.scrape_source
                        /\ q.request_id = r.request_id
                        /\ q.date_submitted = r.date_submitted
                ELSE r \in requests']_vars

\* add_request found the row and was passed another date than the row has; a
\* second request is stored as well.
C28_Witness ==
    /\ lastOp.op = "add_request"
    /\ lastOp.hit
    /\ Cardinality(requests) = 2
    /\ \E r \in requests :
          /\ r.scrape_source = lastOp.key[1]
          /\ r.request_id = lastOp.key[2]
          /\ r.date_submitted # lastOp.key[4]

====
